---- MODULE Spec2Model ----
(***************************************************************************)
(* Model of write_tree_with_content (packages/plugin-racer/makki.py): one  *)
(* output file is opened, the tree under root_dir is walked twice with     *)
(* os.walk, and an outline followed by the files' contents is written.     *)
(*                                                                         *)
(* Text is a sequence of tokens.  A token is one character (a name         *)
(* character, the path separator, a space, a line boundary) or a fixed     *)
(* literal of the program that contains no separator and no line boundary. *)
(* Every file and directory name of the modelled tree is one character, so *)
(* str.replace, str.count and os.path.basename act on characters exactly   *)
(* as in the program.                                                      *)
(***************************************************************************)
EXTENDS Integers, Sequences, FiniteSets, TLC

VARIABLES
    output_file,   \* argument: identity of the file the report goes to
    root_dir,      \* argument: the root path, as text
    ignore_list,   \* argument: the names to skip
    fs,            \* the file system the run meets (does not change)
    outBase,       \* text of the output file on disk that predates the open
    report,        \* the lines handed to file.write so far, in order
    flushed,       \* number of lines of report that have reached the disk
    outOpens,      \* how many times the output file was opened in this run
    outOpen,       \* the output handle is open
    inOpen,        \* number of input handles that are open
    pc,            \* position in the function
    pass,          \* 1: outline walk, 2: content walk
    stack,         \* os.walk: directories still to visit, next one first
    dirpath,       \* the directory os.walk yielded last
    level,         \* the level computed for dirpath
    filenames,     \* file names of dirpath still to handle
    filename,      \* the file being handled in pass 2
    content,       \* lines of the file read that are still to write
    err,           \* text of the exception caught, and which call raised it
    visited,       \* history: directories yielded, in order, with the pass
    opened,        \* history: files opened, with the mode
    run,           \* 1 or 2: which of two successive calls this is
    prev           \* bytes of the report the previous call left on disk

vars == << output_file, root_dir, ignore_list, fs, outBase, report, flushed,
           outOpens, outOpen, inOpen, pc, pass, stack, dirpath, level,
           filenames, filename, content, err, visited, opened, run, prev >>

args == << output_file, root_dir, ignore_list, fs >>
walk == << stack, dirpath, level, filenames >>
hist == << visited, opened >>
runs == << run, prev >>

----------------------------------------------------------------------------
(* Characters and literals *)

SEP == "/"
NL == "\n"
CR == "\r"
FF == "\f"
SP == " "

Outline == "Directory Tree Outline:"
Detailed == "Detailed File Content:"
CouldNot == "(Could not read file: "
Denied == "[Errno 13] Permission denied: '"
Undecodable == "'utf-8' codec can't decode byte 0xff in position 0: invalid start byte"

\* Pending text above this many tokens is pushed to the disk by a write.
BufSize == 12

----------------------------------------------------------------------------
(* Strings *)

RECURSIVE Replace(_, _)
\* s.replace(old, ''): every non-overlapping occurrence of old, left to right
Replace(s, old) ==
    IF Len(s) < Len(old) THEN s
    ELSE IF SubSeq(s, 1, Len(old)) = old
         THEN Replace(SubSeq(s, Len(old) + 1, Len(s)), old)
         ELSE <<Head(s)>> \o Replace(Tail(s), old)

\* s.count(c) for a single character c
Count(s, c) == Cardinality({i \in DOMAIN s : s[i] = c})

\* os.path.basename(p): what follows the last separator
Basename(p) ==
    LET seps == {i \in DOMAIN p : p[i] = SEP}
        last == IF seps = {} THEN 0
                ELSE CHOOSE i \in seps : \A j \in seps : j <= i
    IN SubSeq(p, last + 1, Len(p))

\* os.path.join(a, name) for a relative name
Join(a, name) ==
    IF a # <<>> /\ a[Len(a)] = SEP THEN a \o <<name>>
    ELSE a \o <<SEP, name>>

\* ' ' * n
Spaces(n) == [i \in 1..n |-> SP]

\* The characters str.splitlines breaks a line at (those the model's files use).
LineBoundaries == {NL, CR, FF}

\* The lines of s when a line ends at a character of B; CR NL ends one line.
SplitAt(s, B) ==
    LET idx == [i \in 1..Len(s) |-> i]
        IsEnd(i) == s[i] \in B /\ ~(s[i] = CR /\ i < Len(s) /\ s[i + 1] = NL)
        ends == SelectSeq(idx, IsEnd)
        n == Len(ends)
        Start(k) == IF k = 1 THEN 1 ELSE ends[k - 1] + 1
        Stop(k) == IF s[ends[k]] = NL /\ ends[k] > Start(k) /\ s[ends[k] - 1] = CR
                        /\ CR \in B
                   THEN ends[k] - 2 ELSE ends[k] - 1
        rest == IF n = 0 THEN 1 ELSE ends[n] + 1
    IN [k \in 1..n |-> SubSeq(s, Start(k), Stop(k))]
         \o (IF rest <= Len(s) THEN << SubSeq(s, rest, Len(s)) >> ELSE <<>>)

\* str.splitlines()
SplitLines(s) == SplitAt(s, LineBoundaries)

\* Text-mode read: universal newlines turn CR NL and CR into NL.
Translate(s) ==
    LET idx == [i \in 1..Len(s) |-> i]
        Kept(i) == ~(s[i] = NL /\ i > 1 /\ s[i - 1] = CR)
        kept == SelectSeq(idx, Kept)
    IN [k \in 1..Len(kept) |-> IF s[kept[k]] = CR THEN NL ELSE s[kept[k]]]

----------------------------------------------------------------------------
(* The tree.  A directory or file is named by its path relative to the     *)
(* root, a sequence of names; the file outside the root is <<"..", "o">>.  *)

InsideOut == <<"o">>
OutsideOut == <<"..", "o">>

\* scandir: the subdirectories of a directory, in listing order
Dirs(rel) ==
    CASE rel = <<>> -> <<"a", "n">>
      [] rel = <<"a">> -> <<"b">>
      [] rel = <<"n">> -> <<"a">>
      [] OTHER -> <<>>

\* scandir: the files of a directory, in listing order.  The output file
\* exists from the open on, so every walk of a run lists it.
Files(rel, out) ==
    CASE rel = <<>> -> IF out = InsideOut THEN <<"x", "o">> ELSE <<"x">>
      [] rel = <<"a">> -> <<"y">>
      [] rel = <<"a", "b">> -> <<"x">>
      [] rel = <<"n">> -> <<"y">>
      [] OTHER -> <<>>

\* scandir succeeds on the directory
Listable(rel, f) ==
    IF rel = <<>> THEN f.rootExists ELSE rel # f.unlistable

\* The path text os.walk builds for a directory
RECURSIVE PathOf(_, _)
PathOf(root, rel) ==
    IF rel = <<>> THEN root
    ELSE Join(PathOf(root, SubSeq(rel, 1, Len(rel) - 1)), rel[Len(rel)])

----------------------------------------------------------------------------
(* The report.  A line is what one file.write call puts on one line, with  *)
(* the directory or file it was written for.                               *)

Line(k, n, t, r) == [kind |-> k, pass |-> pass, indent |-> n, text |-> t, rel |-> r]

\* The characters a line puts in the file
Render(l) == Spaces(l.indent) \o l.text \o <<NL>>

RECURSIVE RenderAll(_)
RenderAll(ls) == IF ls = <<>> THEN <<>> ELSE Render(Head(ls)) \o RenderAll(Tail(ls))

\* open(output_file, 'a') keeps what the file holds
AppendMode(base) == base

\* open(output_file, 'w') empties the file
OpenMode(base) == <<>>

\* Lines written but still in the handle's buffer stay there until the
\* pending text exceeds BufSize or the handle is closed.
FlushPoint(rep, fl) ==
    IF Len(RenderAll(SubSeq(rep, fl + 1, Len(rep)))) > BufSize THEN Len(rep) ELSE fl

\* The bytes of the output file on disk
DiskText == outBase \o RenderAll(SubSeq(report, 1, flushed))

\* file.write(...) of the given lines
Write(ls) ==
    /\ report' = report \o ls
    /\ flushed' = FlushPoint(report \o ls, flushed)
    /\ outBase' = outBase

\* The bytes of a file other than the output file
StoredText(id, f) ==
    IF id[Len(id)] = "y" THEN f.ytext ELSE <<"h", NL, "w">>

\* The bytes open(file_path, 'r') finds
FileText(id) == IF id = output_file THEN DiskText ELSE StoredText(id, fs)

----------------------------------------------------------------------------
(* The computations of the loop bodies *)

\* level = dirpath.replace(root_dir, '').count(os.sep)
Level(dp, root) == Count(Replace(dp, root), SEP)

\* a filter that lets every directory name through
KeepEveryDir(d, ignore) == TRUE

\* d not in ignore_list
KeepDir(d, ignore) == d \notin ignore

\* filename not in ignore_list
KeepFile(f, ignore) == f \notin ignore

\* dirnames[:] = [d for d in dirnames if d not in ignore_list]
Prune(dirnames, ignore) == SelectSeq(dirnames, LAMBDA d : KeepDir(d, ignore))

\* pass 2 without its filter on filenames
UnfilteredFiles(fns, ignore) == fns

\* pass 1 filters inside the loop, pass 2 filters filenames before it
Pass2Files(fns, ignore) == SelectSeq(fns, LAMBDA f : KeepFile(f, ignore))

\* f.read().splitlines()
ReadLines(raw) == SplitLines(Translate(raw))

\* a walk that visits the subdirectories after the directories already waiting
PushBehind(top, dirnames, rest) ==
    rest \o [i \in 1..Len(dirnames) |->
        [path |-> Join(top.path, dirnames[i]), rel |-> top.rel \o <<dirnames[i]>>]]

\* os.walk: the subdirectories kept are visited next, in order, before the
\* directories already waiting
Push(top, dirnames, rest) ==
    [i \in 1..Len(dirnames) |->
        [path |-> Join(top.path, dirnames[i]), rel |-> top.rel \o <<dirnames[i]>>]] \o rest

\* an input handle that is never closed
LeakInput(n) == n

\* with open(file_path, 'r') as f: leaving the block closes the handle
CloseInput(n) == n - 1

\* back to the for loop over filenames, or to os.walk when it is exhausted
AfterFile(fns) == IF fns = <<>> THEN "walk" ELSE "files"

\* the with statement closes the output handle when an error leaves it
FatalExit == "raised"

----------------------------------------------------------------------------
(* Initial states *)

RootDirs == { <<"a">>, <<"a", SEP>>, <<"a", SEP, "b">> }
IgnoreLists == { {}, {"n"}, {"x"}, {"a"}, {"o", "n"}, {"b", "y"} }
BadFiles == { [file |-> <<>>, kind |-> "none"],
              [file |-> <<"x">>, kind |-> "noperm"],
              [file |-> <<"a", "y">>, kind |-> "binary"] }
YTexts == { <<"p", FF, "q", NL>>, <<"p", CR, NL, NL, "q">> }
OldTexts == { <<>>, <<"z", NL>> }
NoDir == [path |-> <<>>, rel |-> <<>>]
NoErr == [msg |-> <<>>, from |-> "none"]

FileSystems ==
    { f \in [rootExists : BOOLEAN, outWritable : BOOLEAN, unlistable : {<<>>, <<"a">>},
             bad : BadFiles, ytext : YTexts] :
        (~f.rootExists \/ ~f.outWritable) =>
            /\ f.unlistable = <<>>
            /\ f.bad.kind = "none"
            /\ f.ytext = <<"p", FF, "q", NL>> }

Init ==
    /\ output_file \in {InsideOut, OutsideOut}
    /\ root_dir \in RootDirs
    /\ ignore_list \in IgnoreLists
    /\ fs \in FileSystems
    /\ outBase \in OldTexts
    /\ report = <<>>
    /\ flushed = 0
    /\ outOpens = 0
    /\ outOpen = FALSE
    /\ inOpen = 0
    /\ pc = "start"
    /\ pass = 1
    /\ stack = <<>>
    /\ dirpath = NoDir
    /\ level = 0
    /\ filenames = <<>>
    /\ filename = ""
    /\ content = <<>>
    /\ err = NoErr
    /\ visited = <<>>
    /\ opened = {}
    /\ run = 1
    /\ prev = <<>>

----------------------------------------------------------------------------
(* Actions: the steps of write_tree_with_content *)

\* with open(output_file, 'w') as file: the open succeeds or raises
OpenOutput ==
    /\ pc = "start"
    /\ IF fs.outWritable
       THEN /\ outBase' = OpenMode(outBase)
            /\ outOpen' = TRUE
            /\ outOpens' = outOpens + 1
            /\ opened' = opened \cup {[file |-> output_file, mode |-> "w"]}
            /\ pc' = "title"
       ELSE /\ pc' = "raised"
            /\ UNCHANGED << outBase, outOpen, outOpens, opened >>
    /\ UNCHANGED << args, report, flushed, inOpen, pass, walk, filename, content,
                    err, visited, runs >>

\* file.write("Directory Tree Outline:\n"), then the first os.walk(root_dir)
WriteTitle ==
    /\ pc = "title"
    /\ Write(<< Line("title", 0, <<Outline>>, <<>>) >>)
    /\ pass' = 1
    /\ stack' = << [path |-> root_dir, rel |-> <<>>] >>
    /\ pc' = "walk"
    /\ UNCHANGED << args, outOpens, outOpen, inOpen, dirpath, level, filenames,
                    filename, content, err, hist, runs >>

\* os.walk meets a directory it cannot list (or a root that does not exist):
\* scandir's error is dropped and the directory is passed over in silence
WalkSkip ==
    /\ pc = "walk"
    /\ stack # <<>>
    /\ ~Listable(Head(stack).rel, fs)
    /\ stack' = Tail(stack)
    /\ UNCHANGED << args, outBase, report, flushed, outOpens, outOpen, inOpen, pc,
                    pass, dirpath, level, filenames, filename, content, err, hist,
                    runs >>

\* os.walk yields the next directory; the body prunes dirnames, computes the
\* level and writes the header line; pass 2 also filters filenames
WalkYield ==
    /\ pc = "walk"
    /\ stack # <<>>
    /\ Listable(Head(stack).rel, fs)
    /\ LET top == Head(stack)
           lv == Level(top.path, root_dir)
           fns == IF pass = 1 THEN Files(top.rel, output_file)
                  ELSE Pass2Files(Files(top.rel, output_file), ignore_list)
       IN /\ dirpath' = top
          /\ stack' = Push(top, Prune(Dirs(top.rel), ignore_list), Tail(stack))
          /\ level' = lv
          /\ Write(<< Line("dir", 4 * lv, Basename(top.path) \o <<SEP>>, top.rel) >>)
          /\ filenames' = fns
          /\ pc' = AfterFile(fns)
          /\ visited' = Append(visited, [pass |-> pass, rel |-> top.rel])
    /\ UNCHANGED << args, outOpens, outOpen, inOpen, pass, filename, content, err,
                    opened, runs >>

\* pass 1 writing every file name, ignored or not
P1FileUnfiltered ==
    /\ pc = "files"
    /\ pass = 1
    /\ Write(<< Line("file", 4 * (level + 1), <<Head(filenames)>>,
                     dirpath.rel \o <<Head(filenames)>>) >>)
    /\ filenames' = Tail(filenames)
    /\ pc' = AfterFile(Tail(filenames))
    /\ UNCHANGED << args, outOpens, outOpen, inOpen, pass, stack, dirpath, level,
                    filename, content, err, hist, runs >>

\* pass 1, one turn of the loop over filenames: the name is written unless
\* it is in ignore_list
P1File ==
    /\ pc = "files"
    /\ pass = 1
    /\ LET f == Head(filenames)
       IN IF KeepFile(f, ignore_list)
          THEN Write(<< Line("file", 4 * (level + 1), <<f>>, dirpath.rel \o <<f>>) >>)
          ELSE UNCHANGED << outBase, report, flushed >>
    /\ filenames' = Tail(filenames)
    /\ pc' = AfterFile(Tail(filenames))
    /\ UNCHANGED << args, outOpens, outOpen, inOpen, pass, stack, dirpath, level,
                    filename, content, err, hist, runs >>

\* file.write("\nDetailed File Content:\n"), then the second os.walk(root_dir)
Separator ==
    /\ pc = "walk"
    /\ pass = 1
    /\ stack = <<>>
    /\ Write(<< Line("blank", 0, <<>>, <<>>), Line("title", 0, <<Detailed>>, <<>>) >>)
    /\ pass' = 2
    /\ stack' = << [path |-> root_dir, rel |-> <<>>] >>
    /\ UNCHANGED << args, outOpens, outOpen, inOpen, pc, dirpath, level, filenames,
                    filename, content, err, hist, runs >>

\* pass 2, one turn of the loop over filenames: the file-name line
P2FileName ==
    /\ pc = "files"
    /\ pass = 2
    /\ filename' = Head(filenames)
    /\ filenames' = Tail(filenames)
    /\ Write(<< Line("file", 4 * (level + 1), <<Head(filenames)>>,
                     dirpath.rel \o <<Head(filenames)>>) >>)
    /\ pc' = "open"
    /\ UNCHANGED << args, outOpens, outOpen, inOpen, pass, stack, dirpath, level,
                    content, err, hist, runs >>

\* open(file_path, 'r'): the handle, or an error for the except clause
P2Open ==
    /\ pc = "open"
    /\ LET id == dirpath.rel \o <<filename>>
       IN IF fs.bad.file = id /\ fs.bad.kind = "noperm"
          THEN /\ err' = [msg |-> <<Denied>> \o Join(dirpath.path, filename) \o <<"'">>,
                          from |-> "open"]
               /\ pc' = "except"
               /\ UNCHANGED << inOpen, opened >>
          ELSE /\ inOpen' = inOpen + 1
               /\ opened' = opened \cup {[file |-> id, mode |-> "r"]}
               /\ pc' = "read"
               /\ err' = err
    /\ UNCHANGED << args, outBase, report, flushed, outOpens, outOpen, pass, walk,
                    filename, content, visited, runs >>

\* content = f.read().splitlines(), and the inner with closes the handle
\* whether the read returned or raised
P2Read ==
    /\ pc = "read"
    /\ inOpen' = CloseInput(inOpen)
    /\ LET id == dirpath.rel \o <<filename>>
       IN IF fs.bad.file = id /\ fs.bad.kind = "binary"
          THEN /\ err' = [msg |-> <<Undecodable>>, from |-> "read"]
               /\ pc' = "except"
               /\ content' = content
          ELSE /\ content' = ReadLines(FileText(id))
               /\ pc' = IF ReadLines(FileText(id)) = <<>> THEN AfterFile(filenames)
                        ELSE "content"
               /\ err' = err
    /\ UNCHANGED << args, outBase, report, flushed, outOpens, outOpen, pass, walk,
                    filename, hist, runs >>

\* one turn of the loop over content: the line at its indent
P2Content ==
    /\ pc = "content"
    /\ Write(<< Line("content", 4 * (level + 2), Head(content),
                     dirpath.rel \o <<filename>>) >>)
    /\ content' = Tail(content)
    /\ pc' = IF Tail(content) = <<>> THEN AfterFile(filenames) ELSE "content"
    /\ UNCHANGED << args, outOpens, outOpen, inOpen, pass, walk, filename, err,
                    hist, runs >>

\* the write of a content line raises (the disk fails): the except clause
\* catches it like any other error
P2ContentFail ==
    /\ pc = "content"
    /\ err' = [msg |-> <<"[Errno 5] Input/output error">>, from |-> "write"]
    /\ pc' = "except"
    /\ UNCHANGED << args, outBase, report, flushed, outOpens, outOpen, inOpen, pass,
                    walk, filename, content, hist, runs >>

\* except Exception as e: the placeholder line.  After a failed write the
\* disk keeps failing, so only FatalWrite follows.
P2Except ==
    /\ pc = "except"
    /\ err.from # "write"
    /\ Write(<< Line("placeholder", 4 * (level + 1) + 2,
                     <<CouldNot>> \o err.msg \o <<")">>, dirpath.rel \o <<filename>>) >>)
    /\ err' = NoErr
    /\ content' = <<>>
    /\ pc' = AfterFile(filenames)
    /\ UNCHANGED << args, outOpens, outOpen, inOpen, pass, walk, filename, hist, runs >>

\* a file.write outside the try raises: the error leaves the function and
\* the with statement closes the output handle on the way
FatalWrite ==
    /\ \/ pc \in {"title", "except"}
       \/ pc = "walk" /\ stack # <<>> /\ Listable(Head(stack).rel, fs)
       \/ pc = "walk" /\ stack = <<>> /\ pass = 1
       \/ pc = "files" /\ (pass = 2 \/ KeepFile(Head(filenames), ignore_list))
    /\ outOpen' = FALSE
    /\ pc' = FatalExit
    /\ UNCHANGED << args, outBase, report, flushed, outOpens, inOpen, pass, walk,
                    filename, content, err, hist, runs >>

\* the second walk is exhausted: the with statement flushes and closes the
\* output handle and the function returns
Close ==
    /\ pc = "walk"
    /\ pass = 2
    /\ stack = <<>>
    /\ flushed' = Len(report)
    /\ outOpen' = FALSE
    /\ pc' = "done"
    /\ UNCHANGED << args, outBase, report, outOpens, inOpen, pass, walk, filename,
                    content, err, hist, runs >>

\* the caller runs the function again with the same arguments on the tree
\* as the first call left it
Rerun ==
    /\ pc = "done"
    /\ run = 1
    /\ run' = 2
    /\ prev' = DiskText
    /\ outBase' = DiskText
    /\ report' = <<>>
    /\ flushed' = 0
    /\ outOpens' = 0
    /\ pc' = "start"
    /\ pass' = 1
    /\ dirpath' = NoDir
    /\ level' = 0
    /\ filename' = ""
    /\ visited' = <<>>
    /\ opened' = {}
    /\ UNCHANGED << args, outOpen, inOpen, stack, filenames, content, err >>

Next ==
    \/ OpenOutput
    \/ WriteTitle
    \/ WalkSkip
    \/ WalkYield
    \/ P1File
    \/ Separator
    \/ P2FileName
    \/ P2Open
    \/ P2Read
    \/ P2Content
    \/ P2ContentFail
    \/ P2Except
    \/ FatalWrite
    \/ Close
    \/ Rerun

Spec == Init /\ [][Next]_vars

----------------------------------------------------------------------------
(* Vocabulary of the properties *)

IsPrefix(r, t) == Len(r) <= Len(t) /\ SubSeq(t, 1, Len(r)) = r
Front(t) == SubSeq(t, 1, Len(t) - 1)
Last(t) == t[Len(t)]

\* the name of the root directory: the last segment of root_dir
RootName == Last(SelectSeq(root_dir, LAMBDA c : c # SEP))

\* the basename of a directory or file of the tree
NameOf(rel) == IF rel = <<>> THEN RootName ELSE Last(rel)

\* the directory a line belongs to, and its depth below the root
Owner(l) == IF l.kind = "dir" THEN l.rel ELSE Front(l.rel)
Depth(l) == Len(Owner(l))

Named(l) == l.kind \in {"dir", "file"}
InTree(l) == l.kind \in {"dir", "file", "content", "placeholder"}

\* the directory and file-name lines of one pass, without the pass mark
Skeleton(p) ==
    LET ls == SelectSeq(report, LAMBDA l : Named(l) /\ l.pass = p)
    IN [i \in 1..Len(ls) |->
          [kind |-> ls[i].kind, indent |-> ls[i].indent, text |-> ls[i].text,
           rel |-> ls[i].rel]]

\* the directories one pass visited, in order
VisitedIn(p) ==
    LET vs == SelectSeq(visited, LAMBDA v : v.pass = p)
    IN [i \in 1..Len(vs) |-> vs[i].rel]

\* the lines of a file when lines end at newlines only (LF, CR, CR LF)
FileLines(raw) == SplitAt(raw, {NL, CR})

\* the content lines that directly follow line i of the report
ContentAfter(i) ==
    LET stop == {j \in (i + 1)..Len(report) : report[j].kind # "content"}
        end == IF stop = {} THEN Len(report)
               ELSE (CHOOSE j \in stop : \A k \in stop : j <= k) - 1
    IN SubSeq(report, i + 1, end)

Readable(id) == fs.bad.file # id

----------------------------------------------------------------------------
(* C1 *)

\* C1 as stated: no directory (the root included) and no file whose basename
\* is in ignore_list has a header or file-name line in either section, and no
\* directory below a directory whose basename is in ignore_list is visited.
C1_IgnoredAbsentRootIncluded ==
    /\ \A i \in DOMAIN report :
          Named(report[i]) => NameOf(report[i].rel) \notin ignore_list
    /\ \A j \in DOMAIN visited :
          \A n \in 0..(Len(visited[j].rel) - 1) :
              NameOf(SubSeq(visited[j].rel, 1, n)) \notin ignore_list

\* C1 amended: no directory other than the root and no file whose basename is
\* in ignore_list has a header or file-name line in either section, and no
\* directory at or below such a directory is visited by either walk.
C1_IgnoredBelowRootAbsent ==
    /\ \A i \in DOMAIN report :
          (Named(report[i]) /\ report[i].rel # <<>>)
              => NameOf(report[i].rel) \notin ignore_list
    /\ \A j \in DOMAIN visited :
          \A n \in 1..Len(visited[j].rel) : visited[j].rel[n] \notin ignore_list

\* Both walks are over and skipped an ignored directory that has a
\* subdirectory of its own, and an ignored file next to a listed one.
C1_Witness ==
    /\ pc = "done"
    /\ ignore_list = {"o", "n"}
    /\ output_file = InsideOut
    /\ VisitedIn(2) = << <<>>, <<"a">>, <<"a", "b">> >>
    /\ \E i \in DOMAIN report : report[i].kind = "file" /\ report[i].rel = <<"x">>

----------------------------------------------------------------------------
(* C3 *)

\* a directory that cannot be listed is met by the walk
UnlistableMet ==
    /\ fs.unlistable # <<>>
    /\ \A n \in DOMAIN fs.unlistable : fs.unlistable[n] \notin ignore_list

\* C3: a root that does not exist, an output path that cannot be opened and
\* a directory that cannot be listed each make the function raise: it never
\* returns normally with a report when one of them happened.
C3_OtherErrorsAreFatal ==
    pc = "done" => (fs.outWritable /\ fs.rootExists /\ ~UnlistableMet)

----------------------------------------------------------------------------
(* C5 *)

\* C5: for every root path the level computed for a directory is its depth
\* below the root; headers are indented 4*depth, file names 4*(depth+1),
\* content lines 4*(depth+2), and a child directory strictly more than its
\* parent.
C5_LevelIsDepth ==
    /\ pc \in {"files", "open", "read", "content", "except"}
          => level = Len(dirpath.rel)
    /\ \A i \in DOMAIN report :
          /\ report[i].kind = "dir" => report[i].indent = 4 * Depth(report[i])
          /\ report[i].kind = "file" => report[i].indent = 4 * (Depth(report[i]) + 1)
          /\ report[i].kind = "content" => report[i].indent = 4 * (Depth(report[i]) + 2)
    /\ \A i, j \in DOMAIN report :
          (/\ report[i].kind = "dir" /\ report[j].kind = "dir"
           /\ report[i].pass = report[j].pass
           /\ report[j].rel # <<>> /\ Front(report[j].rel) = report[i].rel)
              => report[j].indent > report[i].indent

----------------------------------------------------------------------------
(* C2 *)

\* C2: in pass 2 a file whose open or read raised has its file-name line
\* directly followed by exactly one placeholder line, which begins
\* "(Could not read file: " and is indented 4*(depth+1)+2, with no content
\* line of that file; and what comes later is written as if the file had
\* been readable: no file or directory of the outline is missing from the
\* second section, and every readable file still gets its lines.
C2_PlaceholderForUnreadable ==
    /\ \A k \in DOMAIN report :
          report[k].kind = "placeholder" =>
              /\ k > 1
              /\ report[k - 1].kind = "file"
              /\ report[k - 1].rel = report[k].rel
              /\ report[k].text[1] = CouldNot
              /\ report[k].indent = 4 * (Depth(report[k]) + 1) + 2
              /\ \A j \in DOMAIN report :
                    (j # k /\ report[j].rel = report[k].rel /\ report[j].pass = 2)
                        => report[j].kind = "file"
    /\ pc = "done" =>
          /\ Skeleton(2) = Skeleton(1)
          /\ \A i \in DOMAIN report :
                (/\ report[i].kind = "file" /\ report[i].pass = 2
                 /\ report[i].rel # output_file)
                    => IF Readable(report[i].rel)
                       THEN Len(ContentAfter(i))
                                = Len(ReadLines(StoredText(report[i].rel, fs)))
                       ELSE /\ i < Len(report)
                            /\ report[i + 1].kind = "placeholder"

----------------------------------------------------------------------------
(* C4 *)

\* C4: under the file-name line of a readable file the content lines are,
\* after the 4*(depth+2) spaces of indent, the file's own lines in order:
\* as many lines, each unchanged but for its newline terminator, split at
\* newline boundaries only.
C4_ContentIsTheFilesLines ==
    pc = "done" =>
        \A i \in DOMAIN report :
            (/\ report[i].kind = "file" /\ report[i].pass = 2
             /\ report[i].rel # output_file /\ Readable(report[i].rel))
                => LET own == FileLines(StoredText(report[i].rel, fs))
                       got == ContentAfter(i)
                   IN /\ Len(got) = Len(own)
                      /\ \A k \in DOMAIN got :
                            /\ got[k].indent = 4 * (Depth(report[i]) + 2)
                            /\ got[k].text = own[k]

----------------------------------------------------------------------------
(* C6 *)

\* C6: a second call with the same arguments on the tree as the first call
\* left it leaves the same bytes in the output file, also when the output
\* file lies under the root and is not ignored (and so is read by the walk).
C6_SecondRunSameBytes ==
    (run = 2 /\ pc = "done") => DiskText = prev

\* The second call is over and it read the output file, which held text
\* already, while writing it.
C6_Witness ==
    /\ run = 2
    /\ pc = "done"
    /\ output_file = InsideOut
    /\ [file |-> output_file, mode |-> "r"] \in opened
    /\ \E i \in DOMAIN report : report[i].kind = "content" /\ report[i].rel = output_file

----------------------------------------------------------------------------
(* C7 *)

UnderRoot(id) == id # <<>> /\ id[1] # ".."

\* C7 as stated: only the output file is opened for writing; every file
\* opened for reading is a non-ignored file under the root; no file whose
\* basename is in ignore_list is ever opened; no file is both read and
\* written in the same run.
C7_OpensAsStated ==
    /\ \A o \in opened : o.mode = "w" => o.file = output_file
    /\ \A o \in opened :
          o.mode = "r" => (UnderRoot(o.file) /\ Last(o.file) \notin ignore_list)
    /\ \A o \in opened : Last(o.file) \notin ignore_list
    /\ \A o, q \in opened : o.file = q.file => o.mode = q.mode

\* C7 amended: only the output file is opened for writing; every file
\* opened for reading is a non-ignored file under the root, opened read-only;
\* a file whose basename is in ignore_list is opened only if it is the output
\* file, and then for writing only; the one file that can be both read and
\* written in a run is the output file, when it lies under the root and its
\* basename is not in ignore_list.
C7_OpensAmended ==
    /\ \A o \in opened : o.mode = "w" => o.file = output_file
    /\ \A o \in opened :
          o.mode = "r" => (UnderRoot(o.file) /\ Last(o.file) \notin ignore_list)
    /\ \A o \in opened :
          Last(o.file) \in ignore_list => (o.file = output_file /\ o.mode = "w")
    /\ \A o, q \in opened :
          (o.file = q.file /\ o.mode # q.mode)
              => (/\ o.file = output_file
                  /\ UnderRoot(output_file)
                  /\ Last(output_file) \notin ignore_list)
    /\ (inOpen > 0 \/ pc = "open") => Last(dirpath.rel \o <<filename>>) \notin ignore_list

\* A run is over in which the output file, under the root and not ignored,
\* was written and read, and an ignored file of a visited directory was not
\* opened.
C7_Witness ==
    /\ pc = "done"
    /\ "x" \in ignore_list
    /\ [file |-> InsideOut, mode |-> "w"] \in opened
    /\ [file |-> InsideOut, mode |-> "r"] \in opened
    /\ [file |-> <<"a", "y">>, mode |-> "r"] \in opened

----------------------------------------------------------------------------
(* C8 *)

\* C8: both passes visit the same directories and list the same files in the
\* same order: the directory and file-name lines of the second section equal
\* the lines of the outline.
C8_PassesAgree ==
    pc = "done" =>
        /\ VisitedIn(2) = VisitedIn(1)
        /\ Skeleton(2) = Skeleton(1)

\* Both passes are over; the tree held an ignored file, and the second
\* section holds content lines and a placeholder line between the names.
C8_Witness ==
    /\ pc = "done"
    /\ run = 1
    /\ "x" \in ignore_list
    /\ Len(VisitedIn(2)) = 5
    /\ \E i \in DOMAIN report : report[i].kind = "content"
    /\ \E i \in DOMAIN report : report[i].kind = "placeholder"

----------------------------------------------------------------------------
(* C9 *)

\* C9: the report begins with the outline title; each pass is a depth-first
\* pre-order with the root first, a directory's header before its files and
\* before every header below it (no header follows a line of its own subtree,
\* a new header is a child of the directory of the line before it or of one
\* of that directory's ancestors, a file-name line continues the directory of
\* the line before it); the blank line and the second title come
\* after every outline line and before every line of the second pass; in the
\* second pass a file's content or placeholder lines directly follow its
\* file-name line.
C9_ReportOrder ==
    /\ report # <<>> =>
          (report[1].kind = "title" /\ report[1].text = <<Outline>>)
    /\ \A i \in DOMAIN report :
          /\ report[i].kind = "title" => (i = 1 \/ report[i - 1].kind = "blank")
          /\ report[i].kind = "blank" =>
                /\ \A j \in 2..(i - 1) : Named(report[j]) /\ report[j].pass = 1
                /\ \A j \in (i + 2)..Len(report) : InTree(report[j]) /\ report[j].pass = 2
                /\ i < Len(report)
                /\ report[i + 1].kind = "title"
                /\ report[i + 1].text = <<Detailed>>
          /\ (InTree(report[i]) /\ report[i].pass = 2) =>
                \E j \in 1..(i - 1) : report[j].kind = "blank"
          /\ report[i].kind \in {"content", "placeholder"} =>
                /\ report[i].pass = 2
                /\ report[i - 1].rel = report[i].rel
                /\ report[i - 1].kind \in {"file", "content"}
    /\ \A i, j \in DOMAIN report :
          (/\ InTree(report[i]) /\ report[j].kind = "dir"
           /\ report[i].pass = report[j].pass /\ i < j)
              => ~IsPrefix(report[j].rel, Owner(report[i]))
    /\ \A j \in DOMAIN report :
          /\ (report[j].kind = "dir" /\ report[j].rel = <<>>) =>
                report[j - 1].kind = "title"
          /\ (report[j].kind = "dir" /\ report[j].rel # <<>>) =>
                /\ InTree(report[j - 1])
                /\ report[j - 1].pass = report[j].pass
                /\ IsPrefix(Front(report[j].rel), Owner(report[j - 1]))
          /\ report[j].kind = "file" =>
                /\ InTree(report[j - 1])
                /\ report[j - 1].pass = report[j].pass
                /\ Owner(report[j - 1]) = Owner(report[j])
    /\ \A p \in 1..2 : Skeleton(p) # <<>> => Skeleton(p)[1].rel = <<>>

\* A whole report: five directories on three levels in each pass, content
\* lines and a placeholder line in the second.
C9_Witness ==
    /\ pc = "done"
    /\ run = 1
    /\ ignore_list = {}
    /\ Len(VisitedIn(1)) = 5
    /\ Len(VisitedIn(2)) = 5
    /\ \E i \in DOMAIN report : report[i].kind = "content" /\ Depth(report[i]) = 2
    /\ \E i \in DOMAIN report : report[i].kind = "placeholder"

----------------------------------------------------------------------------
(* C10 *)

\* C10: the output file is opened once and emptied, its handle stays open
\* through both passes and is closed however the function ends, by return or
\* by an error that propagates; at most one input handle is open at a time,
\* each closed before the next file is opened.
C10_Handles ==
    /\ outOpens <= 1
    /\ pc \in {"title", "walk", "files", "open", "read", "content", "except"}
          => (outOpen /\ outOpens = 1)
    /\ outOpen => outBase = <<>>
    /\ pc \in {"done", "raised"} => (~outOpen /\ inOpen = 0)
    /\ pc = "start" => ~outOpen
    /\ inOpen <= 1
    /\ pc # "read" => inOpen = 0

\* An error propagated out of the second pass after files had been read: the
\* output handle, opened once, is closed and no input handle is open.
C10_Witness ==
    /\ pc = "raised"
    /\ outOpens = 1
    /\ pass = 2
    /\ ~outOpen
    /\ Cardinality({o \in opened : o.mode = "r"}) >= 2

====
